---- MODULE Spec2Model ----
(***************************************************************************)
(* Structured channel pruning of a YOLOv5 detection / segmentation network *)
(* (prune/prune.py: prune_model, prune/parse_yolo.py: parse_pruned_model). *)
(*                                                                         *)
(* Layer identities are dot-separated paths in the code; here a path is    *)
(* the sequence of its components: "model.2.m.0.cv1.bn" is                 *)
(* <<"model","2","m","0","cv1","bn">>.  Python lists are sequences whose   *)
(* position j+1 holds the element of Python index j; channel index lists   *)
(* hold Python (0-based) channel indices.                                  *)
(***************************************************************************)
EXTENDS Integers, Sequences, FiniteSets, TLC

\* ------------------------------------------------------------------ bounds
\* number of scale assignments the original network is drawn from
NSeeds == 4
\* prune ratios are k / PDen, k in 0 .. PDen-1
PDen == 4
\* scale magnitudes lie in 0 .. MaxScale
MaxScale == 3
\* the narrowest original layer has BaseCh channels
BaseCh == 3

VARIABLES
    pc,              \* position of prune_model
    named_modules,   \* originModel.named_modules(), in traversal order
    cfg_seg,         \* cfg.endswith("seg.yaml")
    opt_percent,     \* numerator of the global opt.percent (denominator PDen)
    percent,         \* numerator of prune_model's argument percent
    orig_written,    \* originModel: tensors other than scale and bias written since load
    pruned_model_path, \* the ratio in the checkpoint's file name (-1: none yet)
    weight0,         \* the scales at load time (never written)
    bias0,           \* the biases at load time (never written)
    bn_weight,       \* originModel: BatchNorm2d weight (scale), by layer
    bn_bias,         \* originModel: BatchNorm2d bias, by layer
    ignore_bn_list,  \* names excluded from pruning
    model_list,      \* names of the normalization layers that are scored
    highest_thre,    \* min over scored layers of the layer's max |scale|
    thre,            \* the global threshold
    pruned_yaml,     \* the topology descriptor handed to the builder
    maskbndict,      \* name -> mask (sequence of 0/1)
    floored,         \* layers whose mask the min_channel_num floor changed
    mi,              \* loop index into named_modules (scoring, transplant)
    ei,              \* parse_pruned_model: index of the next descriptor entry
    ch,              \* parse_pruned_model: output channel counts
    fromlayer,       \* parse_pruned_model: last bn name of every entry
    from_to_map,     \* parse_pruned_model: provenance map
    layer_args,      \* parse_pruned_model: constructor arguments by entry
    pruned_state,    \* rebuilt network: tensor name -> tensor
    changed_state,   \* tensor names recorded as written
    missing,         \* declared tensor names not in changed_state
    saved            \* the checkpoint has been written

vars == << pc, named_modules, cfg_seg, opt_percent, percent, orig_written,
                    pruned_model_path, weight0, bias0, bn_weight, bn_bias,
           ignore_bn_list, model_list, highest_thre, thre, pruned_yaml,
           maskbndict, floored, mi, ei, ch, fromlayer, from_to_map,
           layer_args, pruned_state, changed_state, missing, saved >>

\* ----------------------------------------------------------------- helpers
Abs(x) == IF x < 0 THEN -x ELSE x

Max2(a, b) == IF a >= b THEN a ELSE b

Range(s) == { s[j] : j \in DOMAIN s }

RECURSIVE SumSeq(_)
SumSeq(s) == IF s = << >> THEN 0 ELSE s[1] + SumSeq(Tail(s))

\* concatenation of the sequences ss[lo], ..., ss[hi]
RECURSIVE FlattenRange(_, _, _)
FlattenRange(ss, lo, hi) ==
    IF lo > hi THEN << >>
    ELSE IF lo = hi THEN ss[lo]
    ELSE LET mid == (lo + hi) \div 2
         IN  FlattenRange(ss, lo, mid) \o FlattenRange(ss, mid + 1, hi)

Flatten(ss) == FlattenRange(ss, 1, Len(ss))

\* Python list indexing: negative indices count from the end.
PyValid(list, f) == -Len(list) <= f /\ f < Len(list)

PyAt(list, f) == IF f >= 0 THEN list[f + 1] ELSE list[Len(list) + f + 1]

\* Python round() of the rational num/den, den > 0, num >= 0 (half to even).
Round(num, den) ==
    LET q == num \div den
        r == num % den
    IN  IF 2 * r < den THEN q
        ELSE IF 2 * r > den THEN q + 1
        ELSE IF q % 2 = 0 THEN q ELSE q + 1

\* --------------------------------------------------- topology descriptor
Entry(f, n, m, shortcut) == [f |-> f, n |-> n, m |-> m, shortcut |-> shortcut]

BackboneEntries ==
    << Entry(-1, 1, "Conv", TRUE),
       Entry(-1, 1, "Conv", TRUE),
       Entry(-1, 3, "C3Pruned", TRUE),
       Entry(-1, 1, "Conv", TRUE),
       Entry(-1, 6, "C3Pruned", TRUE),
       Entry(-1, 1, "Conv", TRUE),
       Entry(-1, 9, "C3Pruned", TRUE),
       Entry(-1, 1, "Conv", TRUE),
       Entry(-1, 3, "C3Pruned", TRUE),
       Entry(-1, 1, "SPPFPruned", TRUE) >>

HeadEntries ==
    << Entry(-1, 1, "Conv", TRUE),
       Entry(-1, 1, "Upsample", TRUE),
       Entry(<<-1, 6>>, 1, "Concat", TRUE),
       Entry(-1, 3, "C3Pruned", FALSE),
       Entry(-1, 1, "Conv", TRUE),
       Entry(-1, 1, "Upsample", TRUE),
       Entry(<<-1, 4>>, 1, "Concat", TRUE),
       Entry(-1, 3, "C3Pruned", FALSE),
       Entry(-1, 1, "Conv", TRUE),
       Entry(<<-1, 14>>, 1, "Concat", TRUE),
       Entry(-1, 3, "C3Pruned", FALSE),
       Entry(-1, 1, "Conv", TRUE),
       Entry(<<-1, 10>>, 1, "Concat", TRUE),
       Entry(-1, 3, "C3Pruned", FALSE) >>

\* pruned_yaml["backbone"] + pruned_yaml["head"], the head ending with Segment
\* for a "seg.yaml" configuration and with Detect otherwise.
PrunedYaml(seg) ==
    BackboneEntries \o HeadEntries \o
    << Entry(<<17, 20, 23>>, 1, IF seg THEN "Segment" ELSE "Detect", TRUE) >>

\* depth gain: n = max(round(n * gd), 1) if n > 1 else n, with gd = 0.33
DepthGain(n) == IF n > 1 THEN Max2(Round(n * 33, 100), 1) ELSE n

\* named_m_base = "model.{}".format(i)
NamedMBase(i) == << "model", ToString(i) >>

\* ------------------------------------------------------- module hierarchy
Mod(name, kind) == [name |-> name, kind |-> kind]

\* a Conv block: its convolution and its normalization
ConvMods(base) ==
    << Mod(base \o <<"conv">>, "Conv2d"), Mod(base \o <<"bn">>, "BatchNorm2d") >>

RECURSIVE BottleneckMods(_, _, _)
BottleneckMods(base, p, n) ==
    IF p >= n THEN << >>
    ELSE LET b == base \o << "m", ToString(p) >>
         IN  << Mod(b, "Bottleneck") >> \o ConvMods(b \o <<"cv1">>)
                \o ConvMods(b \o <<"cv2">>) \o BottleneckMods(base, p + 1, n)

EntryMods(i, e) ==
    LET base == NamedMBase(i)
    IN  CASE e.m = "Conv" -> ConvMods(base)
          [] e.m = "C3Pruned" ->
                ConvMods(base \o <<"cv1">>) \o ConvMods(base \o <<"cv2">>)
                \o ConvMods(base \o <<"cv3">>)
                \o BottleneckMods(base, 0, DepthGain(e.n))
          [] e.m = "SPPFPruned" ->
                ConvMods(base \o <<"cv1">>) \o ConvMods(base \o <<"cv2">>)
          [] e.m \in {"Detect", "Segment"} ->
                << Mod(base \o <<"m", "0">>, "Conv2d"),
                   Mod(base \o <<"m", "1">>, "Conv2d"),
                   Mod(base \o <<"m", "2">>, "Conv2d") >>
                \o (IF e.m = "Segment"
                    THEN LET pr == base \o <<"proto">>
                         IN  << Mod(pr, "Proto") >> \o ConvMods(pr \o <<"cv1">>)
                             \o ConvMods(pr \o <<"cv2">>) \o ConvMods(pr \o <<"cv3">>)
                    ELSE << >>)
          [] OTHER -> << >>

\* named_modules() in traversal order, restricted to the module kinds the
\* loops of prune_model act on (Bottleneck, Proto, Conv2d, BatchNorm2d).
NamedModules(y) == Flatten([ j \in 1 .. Len(y) |-> EntryMods(j - 1, y[j]) ])

BnNames(y) == { m.name : m \in { x \in Range(NamedModules(y)) : x.kind = "BatchNorm2d" } }

BnSeq(y) ==
    LET ms == NamedModules(y)
    IN  Flatten([ k \in 1 .. Len(ms) |->
                    IF ms[k].kind = "BatchNorm2d" THEN << ms[k].name >> ELSE << >> ])

\* ------------------------------------------------ the original network
\* index of the descriptor entry a layer name belongs to ("model.<i>....")
EntryIdx(name) == CHOOSE i \in 0 .. 99 : ToString(i) = name[2]

\* Channel count of a normalization layer of the original network: an entry's
\* output layers (Conv bn, C3 cv3, SPPF cv2) and its hidden layers alternate
\* between BaseCh and BaseCh + 1; all layers of one residual chain agree.
OrigCh(y, name) ==
    LET i == EntryIdx(name)
        kind == y[i + 1].m
        role == name[Len(name) - 1]
        outw == BaseCh + (i % 2)
        hidw == BaseCh + ((i + 1) % 2)
    IN  CASE kind = "Conv" -> outw
          [] kind = "C3Pruned" ->
                IF Len(name) = 4 /\ role = "cv3" THEN outw ELSE hidw
          [] kind = "SPPFPruned" -> IF role = "cv2" THEN outw ELSE hidw
          [] OTHER -> IF role = "cv3" THEN BaseCh ELSE BaseCh + 1

\* Bottleneck.add of the original network: shortcut and c1 == c2
OrigAdd(y, name) == y[EntryIdx(name) + 1].shortcut

\* the first layer is dead under seed 0 (sparse training drove all its
\* scales to zero); elsewhere the magnitudes of a layer are distinct
ScaleMag(seed, k, c) ==
    IF seed = 0 /\ k = 1 THEN 0
    ELSE (seed * k + k \div 3 + c) % (MaxScale + 1)

ScaleOf(seed, k, c) ==
    IF (seed + k + c) % 3 = 0 THEN -ScaleMag(seed, k, c) ELSE ScaleMag(seed, k, c)

BiasOf(seed, k, c) == IF (k + c) % 2 = 0 THEN c ELSE -c

\* ------------------------------------------------- 1. layers to be scored
\* i.rsplit(".", 2)[0]
Rsplit2(name) == SubSeq(name, 1, Len(name) - 2)

\* an exclusion list without the entry normalization of the enclosing block
IgnoreAppendedBottleOnly(y, m) ==
    (IF m.kind = "Bottleneck" /\ OrigAdd(y, m.name)
     THEN << m.name \o <<"cv1", "bn">>, m.name \o <<"cv2", "bn">> >>
     ELSE << >>)
    \o (IF m.kind = "Proto"
        THEN << m.name \o <<"cv1", "bn">>,
                m.name \o <<"cv2", "bn">>,
                m.name \o <<"cv3", "bn">> >>
        ELSE << >>)

\* what one iteration of the loop over originModel.named_modules() appends to
\* ignore_bn_list
IgnoreAppended(y, m) ==
    (IF m.kind = "Bottleneck" /\ OrigAdd(y, m.name)
     THEN << Rsplit2(m.name) \o <<"cv1", "bn">>,
             m.name \o <<"cv1", "bn">>,
             m.name \o <<"cv2", "bn">> >>
     ELSE << >>)
    \o (IF m.kind = "Proto"
        THEN << m.name \o <<"cv1", "bn">>,
                m.name \o <<"cv2", "bn">>,
                m.name \o <<"cv3", "bn">> >>
        ELSE << >>)

\* ignore_bn_list after the first k iterations
IgnoreAfter(y, ms, k) == Flatten([ j \in 1 .. k |-> IgnoreAppended(y, ms[j]) ])

\* the loop: a BatchNorm2d enters model_list when its name is not in
\* ignore_bn_list as it stands at that iteration
CollectLoop(y, ms) ==
    LET entered(k) == /\ ms[k].kind = "BatchNorm2d"
                      /\ ms[k].name \notin Range(IgnoreAfter(y, ms, k))
    IN  [ignore |-> IgnoreAfter(y, ms, Len(ms)),
         model_list |-> Flatten([ k \in 1 .. Len(ms) |->
                            IF entered(k) THEN << ms[k].name >> ELSE << >> ])]

\* a model_list left as the loop built it
KeepModelList(ml, ignore) == ml

\* model_list = {k: v for k, v in model_list.items() if k not in ignore_bn_list}
FilterModelList(ml, ignore) == SelectSeq(ml, LAMBDA n : n \notin Range(ignore))

\* ------------------------------------------------------- 2. the threshold
\* prune_utils.gather_bn_weights: the magnitudes of the scales of the scored
\* layers, concatenated into one pool
GatherBnWeights(ml, w) ==
    Flatten([ j \in 1 .. Len(ml) |-> [ c \in 1 .. Len(w[ml[j]]) |-> Abs(w[ml[j]][c]) ] ])

\* torch.sort(bn_weights)[0]: the element of rank r is the value v with
\* fewer than r elements below it and at least r elements not above it
SortAsc(s) ==
    LET below(v) == Cardinality({ j \in DOMAIN s : s[j] < v })
        upto(v)  == Cardinality({ j \in DOMAIN s : s[j] <= v })
        lo == [ v \in Range(s) |-> below(v) ]
        hi == [ v \in Range(s) |-> upto(v) ]
    IN  [ r \in 1 .. Len(s) |-> CHOOSE v \in Range(s) : lo[v] < r /\ r <= hi[v] ]

SeqMax(s) == CHOOSE x \in Range(s) : \A z \in Range(s) : z <= x

SeqMin(s) == CHOOSE x \in Range(s) : \A z \in Range(s) : x <= z

\* bnlayer.weight.data.abs().max()
LayerMax(w) == SeqMax([ c \in 1 .. Len(w) |-> Abs(w[c]) ])

\* highest_thre = min(highest_thre)
HighestThre(ml, w) == SeqMin([ j \in 1 .. Len(ml) |-> LayerMax(w[ml[j]]) ])

\* thre_index = int(len(sorted_bn) * opt.percent), opt.percent = pnum / PDen
ThreIndex(n, pnum) == (n * pnum) \div PDen

\* ------------------------------------------------------ 3. mask generation
\* prune_utils.obtain_bn_mask: keep the channels whose scale magnitude is
\* above the threshold
ObtainBnMask(w, t) == [ c \in 1 .. Len(w) |-> IF Abs(w[c]) > t THEN 1 ELSE 0 ]

\* torch.ones(bnlayer.weight.data.size())
Ones(w) == [ c \in 1 .. Len(w) |-> 1 ]

\* tensor.mul_(mask)
MulMask(w, mask) == [ c \in 1 .. Len(w) |-> w[c] * mask[c] ]

min_channel_num == 2

\* torch.sort(weight_copy, descending=True)[1][:k]: the positions of k largest
\* magnitudes; the order of equal magnitudes is not specified by the sort
TopK(wc, k) ==
    LET n == IF Len(wc) < k THEN Len(wc) ELSE k
    IN  { T \in SUBSET (1 .. Len(wc)) :
            /\ Cardinality(T) = n
            /\ \A a \in T : \A b \in (1 .. Len(wc)) \ T : wc[a] >= wc[b] }

\* a floor that forces nothing
ForceKeepNothing(mask, T) == mask

\* mask[sorted_index_weights[:min_channel_num]] = 1.
ForceKeep(mask, T) == [ c \in 1 .. Len(mask) |-> IF c \in T THEN 1 ELSE mask[c] ]

\* whether the floor changes the mask of a layer
NeedsFloor(mask) == SumSeq(mask) < min_channel_num

\* mask generation that forgets the exclusion list
MaskIgnoringExclusion(name, w, ignore, t) == ObtainBnMask(w, t)

\* the mask before floor enforcement (excluded layers get all ones)
MaskBeforeFloor(name, w, ignore, t) ==
    IF name \in Range(ignore) THEN Ones(w) ELSE ObtainBnMask(w, t)

Init ==
    /\ pc = "collect"
    /\ cfg_seg \in BOOLEAN
    /\ named_modules = NamedModules(PrunedYaml(cfg_seg))
    /\ percent \in 0 .. PDen - 1
    \* opt.percent is the argument when run from __main__; otherwise it is a
    \* global of its own
    /\ opt_percent \in { percent } \cup (IF percent = 1 THEN { 0 } ELSE { })
    /\ orig_written = {}
    /\ pruned_model_path = -1
    /\ \E seed \in 0 .. NSeeds - 1 :
       \E y \in { PrunedYaml(cfg_seg) } :
       \E bs \in { BnSeq(y) } :
       \E ord \in { [ n \in Range(bs) |-> CHOOSE k \in DOMAIN bs : bs[k] = n ] } :
       \E width \in { [ n \in Range(bs) |-> OrigCh(y, n) ] } :
         /\ weight0 = [ n \in Range(bs) |->
                         [ c \in 1 .. width[n] |-> ScaleOf(seed, ord[n], c) ] ]
         /\ bias0 = [ n \in Range(bs) |->
                         [ c \in 1 .. width[n] |-> BiasOf(seed, ord[n], c) ] ]
    /\ bn_weight = weight0
    /\ bn_bias = bias0
    /\ ignore_bn_list = << >>
    /\ model_list = << >>
    /\ highest_thre = -1
    /\ thre = -1
    /\ pruned_yaml = << >>
    /\ maskbndict = << >>
    /\ floored = {}
    /\ mi = 0
    /\ ei = 0
    /\ ch = << >>
    /\ fromlayer = << >>
    /\ from_to_map = << >>
    /\ layer_args = << >>
    /\ pruned_state = << >>
    /\ changed_state = {}
    /\ missing = {}
    /\ saved = FALSE

\* prune.py 360-379: the exclusion list and the layers to be scored
Collect ==
    /\ pc = "collect"
    /\ LET r == CollectLoop(PrunedYaml(cfg_seg), named_modules)
       IN  /\ ignore_bn_list' = r.ignore
           /\ model_list' = FilterModelList(r.model_list, r.ignore)
    /\ pc' = "threshold"
    /\ UNCHANGED << named_modules, cfg_seg, opt_percent, percent, orig_written,
                    pruned_model_path, weight0, bias0, bn_weight, bn_bias,
                    highest_thre, thre, pruned_yaml, maskbndict, floored, mi,
                    ei, ch, fromlayer, from_to_map, layer_args, pruned_state, changed_state, missing, saved >>

\* prune.py 383-460: highest_thre, the threshold, and the descriptor
SelectThreshold ==
    /\ pc = "threshold"
    /\ LET sorted_bn == SortAsc(GatherBnWeights(model_list, bn_weight))
           thre_index == ThreIndex(Len(sorted_bn), opt_percent)
       IN  IF model_list = << >> \/ ~PyValid(sorted_bn, thre_index)
           THEN /\ pc' = "error"
                /\ UNCHANGED << highest_thre, thre, pruned_yaml, mi >>
           ELSE /\ highest_thre' = HighestThre(model_list, bn_weight)
                /\ thre' = PyAt(sorted_bn, thre_index)
                /\ pruned_yaml' = PrunedYaml(cfg_seg)
                /\ mi' = 1
                /\ pc' = "score"
    /\ UNCHANGED << named_modules, cfg_seg, opt_percent, percent, orig_written,
                    pruned_model_path, weight0, bias0, bn_weight, bn_bias,
                    ignore_bn_list, model_list, maskbndict, floored, ei, ch,
                    fromlayer, from_to_map, layer_args, pruned_state, changed_state, missing, saved >>

\* prune.py 464-483, one iteration on a BatchNorm2d module: the mask, the
\* in-place zeroing by the mask as first computed, then the floor, then the
\* assertion on the mask's sum
ScoreBn ==
    /\ pc = "score"
    /\ mi <= Len(named_modules)
    /\ named_modules[mi].kind = "BatchNorm2d"
    /\ LET bnname == named_modules[mi].name
           weight_copy == [ c \in 1 .. Len(bn_weight[bnname]) |-> Abs(bn_weight[bnname][c]) ]
           mask0 == MaskBeforeFloor(bnname, bn_weight[bnname], ignore_bn_list, thre)
       IN  /\ bn_weight' = [bn_weight EXCEPT ![bnname] = MulMask(@, mask0)]
           /\ bn_bias' = [bn_bias EXCEPT ![bnname] = MulMask(@, mask0)]
           /\ \E T \in (IF NeedsFloor(mask0) THEN TopK(weight_copy, min_channel_num) ELSE {{}}) :
                LET mask == ForceKeep(mask0, T)
                IN  /\ maskbndict' = (bnname :> mask) @@ maskbndict
                    /\ floored' = IF NeedsFloor(mask0) THEN floored \cup {bnname} ELSE floored
                    /\ IF SumSeq(mask) > 0
                       THEN pc' = "score" /\ mi' = mi + 1
                       ELSE pc' = "error" /\ mi' = mi
    /\ UNCHANGED << named_modules, cfg_seg, opt_percent, percent, orig_written,
                    pruned_model_path, weight0, bias0, ignore_bn_list,
                    model_list, highest_thre, thre, pruned_yaml, ei, ch,
                    fromlayer, from_to_map, layer_args, pruned_state, changed_state, missing, saved >>

\* prune.py 464-466, an iteration on a module that is no BatchNorm2d
ScoreSkip ==
    /\ pc = "score"
    /\ mi <= Len(named_modules)
    /\ named_modules[mi].kind # "BatchNorm2d"
    /\ mi' = mi + 1
    /\ UNCHANGED << pc, named_modules, cfg_seg, opt_percent, percent, orig_written,
                    pruned_model_path, weight0, bias0, bn_weight, bn_bias,
                    ignore_bn_list, model_list, highest_thre, thre, pruned_yaml,
                    maskbndict, floored, ei, ch, fromlayer, from_to_map,
                    layer_args, pruned_state, changed_state,
                    missing, saved >>

\* ------------------------------------------- 4. parse_pruned_model (build)
\* a provenance value: one layer name (a Python str) or a list of values
Str(name) == [str |-> name]

Lst(xs) == [list |-> xs]

IsStr(x) == DOMAIN x = {"str"}

IsList(x) == DOMAIN x = {"list"}

\* int(maskbndict[name].sum())
MaskSum(name) == SumSeq(maskbndict[name])

\* channels of the network input: ch = [3]
InputCh == 3

\* a builder that starts while the scoring loop is still running
StartBuildEarly ==
    /\ pc = "score"
    /\ mi > 1
    /\ pc' = "build"
    /\ ei' = 0
    /\ ch' = << InputCh >>
    /\ fromlayer' = << >>
    /\ from_to_map' = << >>
    /\ layer_args' = << >>
    /\ UNCHANGED << named_modules, cfg_seg, opt_percent, percent, orig_written,
                    pruned_model_path, weight0, bias0, bn_weight,
                    bn_bias, ignore_bn_list, model_list, highest_thre, thre,
                    pruned_yaml, maskbndict, floored, mi, pruned_state, changed_state, missing, saved >>

\* prune.py 487, parse_yolo.py 40-43: DetectionModel(bnMaskDict=maskbndict,
\* cfg=pruned_yaml, ch=3) enters parse_pruned_model
StartBuild ==
    /\ pc = "score"
    /\ mi > Len(named_modules)
    /\ pc' = "build"
    /\ ei' = 0
    /\ ch' = << InputCh >>
    /\ fromlayer' = << >>
    /\ from_to_map' = << >>
    /\ layer_args' = << >>
    /\ UNCHANGED << named_modules, cfg_seg, opt_percent, percent, orig_written,
                    pruned_model_path, weight0, bias0, bn_weight,
                    bn_bias, ignore_bn_list, model_list, highest_thre, thre,
                    pruned_yaml, maskbndict, floored, mi, pruned_state, changed_state, missing, saved >>

\* what a build step leaves alone
BuildFrame ==
    UNCHANGED << named_modules, cfg_seg, opt_percent, percent, orig_written,
                    pruned_model_path, weight0, bias0, bn_weight,
                 bn_bias, ignore_bn_list, model_list, highest_thre, thre,
                 pruned_yaml, maskbndict, floored, mi, pruned_state, changed_state, missing, saved >>

\* a lookup raised (IndexError, KeyError): construction aborts
BuildAbort ==
    /\ pc' = "error"
    /\ UNCHANGED << ei, ch, fromlayer, from_to_map, layer_args >>

\* parse_yolo.py 139-148: the end of an iteration
BuildAppend(args, c2) ==
    /\ layer_args' = Append(layer_args, args)
    /\ ch' = IF ei = 0 THEN << c2 >> ELSE Append(ch, c2)
    /\ ei' = ei + 1
    /\ pc' = "build"

CurEntry == pruned_yaml[ei + 1]

\* a save list built without the division
SaveNeverRaises(sources) == FALSE

\* parse_yolo.py 144: x % i over the sources other than -1 divides by zero
\* at entry 0
SaveRaises(sources) == ei = 0 /\ \E x \in sources : x # -1

\* parse_yolo.py 54-63: a Conv entry
ParseConv ==
    /\ pc = "build" /\ ei < Len(pruned_yaml) /\ CurEntry.m = "Conv"
    /\ LET f == CurEntry.f
           named_m_bn == NamedMBase(ei) \o <<"bn">>
       IN  IF \/ named_m_bn \notin DOMAIN maskbndict
              \/ ~PyValid(ch, f)
              \/ (ei > 0 /\ ~PyValid(fromlayer, f))
              \/ SaveRaises({f})
           THEN BuildAbort
           ELSE /\ from_to_map' = IF ei > 0
                                  THEN (named_m_bn :> PyAt(fromlayer, f)) @@ from_to_map
                                  ELSE from_to_map
                /\ fromlayer' = Append(fromlayer, Str(named_m_bn))
                /\ BuildAppend([c1 |-> PyAt(ch, f), c2 |-> MaskSum(named_m_bn)],
                               MaskSum(named_m_bn))
    /\ BuildFrame

\* the normalization names of bottleneck p of the block named base
BottleCv1Bn(base, p) == base \o << "m", ToString(p), "cv1", "bn" >>

BottleCv2Bn(base, p) == base \o << "m", ToString(p), "cv2", "bn" >>

\* a chain that never advances past the entry convolution
C3FromLayerStuck(base, n) == [ p \in 1 .. n + 1 |-> base \o <<"cv1", "bn">> ]

\* parse_yolo.py 81-92: c3fromlayer after the loop over the n bottlenecks
C3FromLayer(base, n) ==
    << base \o <<"cv1", "bn">> >> \o [ p \in 1 .. n |-> BottleCv2Bn(base, p - 1) ]

\* parse_yolo.py 79-89: chin after the loop
Chin(base, n) == << MaskSum(base \o <<"cv1", "bn">>) >>
                 \o [ p \in 1 .. n |-> MaskSum(BottleCv2Bn(base, p - 1)) ]

\* parse_yolo.py 85-89: bottle_args
BottleArgs(base, n) ==
    [ p \in 1 .. n |-> << Chin(base, n)[p],
                           MaskSum(BottleCv1Bn(base, p - 1)),
                           MaskSum(BottleCv2Bn(base, p - 1)) >> ]

\* parse_yolo.py 69-70, 90-91, 96: the provenance entries of a C3Pruned block
C3Provenance(base, n, src) ==
    LET chain(p) == (BottleCv1Bn(base, p) :> Str(C3FromLayer(base, n)[p + 1]))
                    @@ (BottleCv2Bn(base, p) :> Str(BottleCv1Bn(base, p)))
        F[p \in 0 .. n] == IF p = 0 THEN << >> ELSE chain(p - 1) @@ F[p - 1]
    IN  (base \o <<"cv3", "bn">> :>
             Lst(<< Str(C3FromLayer(base, n)[n + 1]), Str(base \o <<"cv2", "bn">>) >>))
        @@ F[n]
        @@ (base \o <<"cv1", "bn">> :> src)
        @@ (base \o <<"cv2", "bn">> :> src)

\* the normalization layers a C3Pruned entry reads the masks of
C3BnNames(base, n) ==
    { base \o <<"cv1", "bn">>, base \o <<"cv2", "bn">>, base \o <<"cv3", "bn">> }
    \cup { BottleCv1Bn(base, p) : p \in 0 .. n - 1 }
    \cup { BottleCv2Bn(base, p) : p \in 0 .. n - 1 }

\* parse_yolo.py 65-96: a C3Pruned entry
ParseC3Pruned ==
    /\ pc = "build" /\ ei < Len(pruned_yaml) /\ CurEntry.m = "C3Pruned"
    /\ LET f == CurEntry.f
           n == DepthGain(CurEntry.n)
           base == NamedMBase(ei)
       IN  IF \/ ~PyValid(fromlayer, f)
              \/ ~PyValid(ch, f)
              \/ ~(C3BnNames(base, n) \subseteq DOMAIN maskbndict)
              \/ SaveRaises({f})
           THEN BuildAbort
           ELSE /\ from_to_map' = C3Provenance(base, n, PyAt(fromlayer, f)) @@ from_to_map
                /\ fromlayer' = Append(fromlayer, Str(base \o <<"cv3", "bn">>))
                /\ BuildAppend([cv1in |-> PyAt(ch, f),
                                cv1out |-> MaskSum(base \o <<"cv1", "bn">>),
                                cv2out |-> MaskSum(base \o <<"cv2", "bn">>),
                                cv3out |-> MaskSum(base \o <<"cv3", "bn">>),
                                bottle_args |-> BottleArgs(base, n),
                                n |-> n,
                                shortcut |-> CurEntry.shortcut],
                               MaskSum(base \o <<"cv3", "bn">>))
    /\ BuildFrame

\* parse_yolo.py 97-107: an SPPFPruned entry
ParseSPPFPruned ==
    /\ pc = "build" /\ ei < Len(pruned_yaml) /\ CurEntry.m = "SPPFPruned"
    /\ LET f == CurEntry.f
           named_m_cv1_bn == NamedMBase(ei) \o <<"cv1", "bn">>
           named_m_cv2_bn == NamedMBase(ei) \o <<"cv2", "bn">>
       IN  IF \/ ~PyValid(ch, f)
              \/ ~PyValid(fromlayer, f)
              \/ ~({named_m_cv1_bn, named_m_cv2_bn} \subseteq DOMAIN maskbndict)
              \/ SaveRaises({f})
           THEN BuildAbort
           ELSE /\ from_to_map' =
                       (named_m_cv2_bn :> Lst([ k \in 1 .. 4 |-> Str(named_m_cv1_bn) ]))
                       @@ (named_m_cv1_bn :> PyAt(fromlayer, f))
                       @@ from_to_map
                /\ fromlayer' = Append(fromlayer, Str(named_m_cv2_bn))
                /\ BuildAppend([cv1in |-> PyAt(ch, f),
                                cv1out |-> MaskSum(named_m_cv1_bn),
                                cv2out |-> MaskSum(named_m_cv2_bn)],
                               MaskSum(named_m_cv2_bn))
    /\ BuildFrame

\* parse_yolo.py 111-114: a Concat entry
ParseConcat ==
    /\ pc = "build" /\ ei < Len(pruned_yaml) /\ CurEntry.m = "Concat"
    /\ LET f == CurEntry.f
       IN  IF \/ \E j \in DOMAIN f : ~PyValid(ch, f[j]) \/ ~PyValid(fromlayer, f[j])
              \/ SaveRaises(Range(f))
           THEN BuildAbort
           ELSE /\ fromlayer' = Append(fromlayer,
                                       Lst([ j \in DOMAIN f |-> PyAt(fromlayer, f[j]) ]))
                /\ from_to_map' = from_to_map
                /\ BuildAppend([dimension |-> 1],
                               SumSeq([ j \in DOMAIN f |-> PyAt(ch, f[j]) ]))
    /\ BuildFrame

\* parse_yolo.py 115-129: the Detect or Segment entry; c2 keeps the value of
\* the previous iteration and fromlayer gets no element
ParseHead ==
    /\ pc = "build" /\ ei < Len(pruned_yaml) /\ CurEntry.m \in {"Detect", "Segment"}
    /\ LET f == CurEntry.f
           base == NamedMBase(ei)
           heads == (base \o <<"m", "2">> :> PyAt(fromlayer, f[3]))
                    @@ (base \o <<"m", "1">> :> PyAt(fromlayer, f[2]))
                    @@ (base \o <<"m", "0">> :> PyAt(fromlayer, f[1]))
           proto(cv) == base \o << "proto", cv, "bn" >>
           protos == (proto("cv3") :> Str(proto("cv3")))
                     @@ (proto("cv2") :> Str(proto("cv2")))
                     @@ (proto("cv1") :> Str(proto("cv1")))
       IN  IF \/ Len(f) < 3
              \/ \E j \in DOMAIN f : ~PyValid(ch, f[j]) \/ ~PyValid(fromlayer, f[j])
              \/ SaveRaises(Range(f))
           THEN BuildAbort
           ELSE /\ from_to_map' = IF CurEntry.m = "Segment"
                                  THEN protos @@ heads @@ from_to_map
                                  ELSE heads @@ from_to_map
                /\ fromlayer' = fromlayer
                /\ BuildAppend([ch |-> [ j \in DOMAIN f |-> PyAt(ch, f[j]) ]],
                               PyAt(ch, -1))
    /\ BuildFrame

\* parse_yolo.py 134-137: any other entry (nn.Upsample)
ParseOther ==
    /\ pc = "build" /\ ei < Len(pruned_yaml)
    /\ CurEntry.m \notin {"Conv", "C3Pruned", "SPPFPruned", "Concat", "Detect", "Segment"}
    /\ LET f == CurEntry.f
       IN  IF ~PyValid(ch, f) \/ fromlayer = << >> \/ SaveRaises({f})
           THEN BuildAbort
           ELSE /\ fromlayer' = Append(fromlayer, PyAt(fromlayer, -1))
                /\ from_to_map' = from_to_map
                /\ BuildAppend([c2 |-> PyAt(ch, f)], PyAt(ch, f))
    /\ BuildFrame

\* ------------------------------------------------------- 5. the transplant
\* layername.startswith("model.24")
StartsWithModel24(name) == Len(name) >= 2 /\ name[1] = "model" /\ name[2] = "24"

\* "proto" in layername
HasProto(name) == \E j \in DOMAIN name : name[j] = "proto"

\* the tensor names a module contributes to state_dict(): a Conv block's
\* convolution has no bias, a head convolution has one
ModuleKeys(m) ==
    CASE m.kind = "Conv2d" ->
            IF m.name[Len(m.name)] = "conv"
            THEN { m.name \o <<"weight">> }
            ELSE { m.name \o <<"weight">>, m.name \o <<"bias">> }
      [] m.kind = "BatchNorm2d" ->
            { m.name \o << t >> : t \in { "weight", "bias", "running_mean",
                                         "running_var", "num_batches_tracked" } }
      [] OTHER -> {}

\* state_dict().keys()
StateKeys(ms) == UNION { ModuleKeys(ms[j]) : j \in DOMAIN ms }

\* a tensor of the rebuilt network as constructed, before any write
InitTensor == [tag |-> "init"]

\* prune.py 487-499: construction ends; the rebuilt network declares its
\* tensors and the two key sets are asserted equal
FinishBuild ==
    /\ pc = "build"
    /\ ei = Len(pruned_yaml)
    /\ LET keys == StateKeys(NamedModules(pruned_yaml))
       IN  IF keys = StateKeys(named_modules)
           THEN /\ pruned_state' = [ t \in keys |-> InitTensor ]
                /\ changed_state' = {}
                /\ mi' = 1
                /\ pc' = "copy"
           ELSE /\ pc' = "error"
                /\ UNCHANGED << pruned_state, changed_state, mi >>
    /\ UNCHANGED << named_modules, cfg_seg, opt_percent, percent, orig_written,
                    pruned_model_path, weight0, bias0, bn_weight,
                    bn_bias, ignore_bn_list, model_list, highest_thre, thre,
                    pruned_yaml, maskbndict, floored, ei, ch, fromlayer,
                    from_to_map, layer_args, missing, saved >>

\* an index list that keeps every channel
ArgwhereAll(mask) == [ c \in 1 .. Len(mask) |-> c - 1 ]

\* np.argwhere(mask): the indices of the non-zero entries, ascending
Argwhere(mask) ==
    Flatten([ c \in 1 .. Len(mask) |-> IF mask[c] # 0 THEN << c - 1 >> ELSE << >> ])

\* indexing a 4-d kernel by np.squeeze(idx) on its output dimension: a single
\* index is squeezed to a scalar and drops the dimension
RankAfter(out_idx) == IF Len(out_idx) = 1 THEN 3 ELSE 4

\* a copy that keeps every input column of the original kernel
SliceOutputOnly(out_idx, in_idx, rank) ==
    [tag |-> "slice", out |-> out_idx, in |-> << >>, rank |-> rank]

\* a kernel holding rows out_idx and input columns in_idx of the original
Slice(out_idx, in_idx, rank) ==
    [tag |-> "slice", out |-> out_idx, in |-> in_idx, rank |-> rank]

\* every source's retained indices with no offset at all
FormerInNoOffset(former, md, orignin) ==
    Flatten([ it \in 1 .. Len(former) |-> Argwhere(md[former[it]]) ])

\* offsets taken from the retained counts instead of the original widths
FormerInRetainedOffset(former, md, orignin) ==
    Flatten([ it \in 1 .. Len(former) |->
                LET tmp == Argwhere(md[former[it]])
                    off == SumSeq([ j \in 1 .. it - 1 |-> SumSeq(md[former[j]]) ])
                IN  [ j \in DOMAIN tmp |-> tmp[j] + off ] ])

\* prune.py 521-528: the input index list of a convolution with several sources
FormerIn(former, md, orignin) ==
    Flatten([ it \in 1 .. Len(former) |->
                LET tmp == Argwhere(md[former[it]])
                    off == SumSeq(SubSeq(orignin, 1, it - 1))
                IN  IF it > 1 THEN [ j \in DOMAIN tmp |-> tmp[j] + off ] ELSE tmp ])

\* a transplant step that slices the original's tensor in place
CopyFrameWritingOriginal ==
    /\ orig_written' = orig_written \cup { named_modules[mi].name }
    /\ UNCHANGED << named_modules, cfg_seg, opt_percent, percent, pruned_model_path,
                    weight0, bias0, bn_weight, bn_bias, ignore_bn_list, model_list,
                    highest_thre, thre, pruned_yaml, maskbndict, floored, ei, ch,
                    fromlayer, from_to_map, layer_args, missing, saved >>

\* what a transplant step leaves alone
CopyFrame ==
    UNCHANGED << named_modules, cfg_seg, opt_percent, percent, orig_written,
                    pruned_model_path, weight0, bias0, bn_weight,
                 bn_bias, ignore_bn_list, model_list, highest_thre, thre,
                 pruned_yaml, maskbndict, floored, ei, ch, fromlayer,
                 from_to_map, layer_args, missing, saved >>

CopyAbort == pc' = "error" /\ UNCHANGED << mi, pruned_state, changed_state >>

\* the write of one kernel and its record in changed_state
CopyWrite(layername, w) ==
    /\ pruned_state' = [pruned_state EXCEPT ![layername \o <<"weight">>] = w]
    /\ changed_state' = changed_state \cup { layername \o <<"weight">> }
    /\ mi' = mi + 1
    /\ pc' = "copy"

CurModule == named_modules[mi]

\* layername[:-4] + "bn"
ConvBnName(layername) == SubSeq(layername, 1, Len(layername) - 1) \o <<"bn">>

\* prune.py 505-538: a convolution outside the head
CopyConv ==
    /\ pc = "copy" /\ mi <= Len(named_modules)
    /\ CurModule.kind = "Conv2d" /\ ~StartsWithModel24(CurModule.name)
    /\ LET layername == CurModule.name
           convname == ConvBnName(layername)
           out_idx == Argwhere(maskbndict[convname])
       IN  IF convname \notin DOMAIN maskbndict THEN CopyAbort
           ELSE IF convname \in DOMAIN from_to_map
           THEN LET former == from_to_map[convname]
                IN  IF IsStr(former)
                    THEN IF former.str \notin DOMAIN maskbndict THEN CopyAbort
                         ELSE CopyWrite(layername,
                                        Slice(out_idx, Argwhere(maskbndict[former.str]),
                                              RankAfter(out_idx)))
                    ELSE LET names == [ j \in DOMAIN former.list |-> former.list[j].str ]
                             orignin == [ j \in DOMAIN names |-> Len(bn_weight[names[j]]) ]
                         IN  IF \/ \E j \in DOMAIN former.list : ~IsStr(former.list[j])
                                \/ \E j \in DOMAIN names : names[j] \notin DOMAIN maskbndict
                                \/ RankAfter(out_idx) # 4
                             THEN CopyAbort
                             ELSE CopyWrite(layername,
                                            Slice(out_idx,
                                                  FormerIn(names, maskbndict, orignin), 4))
           ELSE IF RankAfter(out_idx) # 4 THEN CopyAbort
                ELSE CopyWrite(layername,
                               [tag |-> "slice_out", out |-> out_idx, rank |-> 4])
    /\ CopyFrame

\* the values of tensor t at the indices idx
Take(t, idx) == [ j \in DOMAIN idx |-> t[idx[j] + 1] ]

\* prune.py 540-553: a normalization layer; one of the prototype branch only
\* rebinds the loop variable
CopyBn ==
    /\ pc = "copy" /\ mi <= Len(named_modules)
    /\ CurModule.kind = "BatchNorm2d"
    /\ LET layername == CurModule.name
           out_idx == Argwhere(maskbndict[layername])
       IN  IF HasProto(layername)
           THEN /\ mi' = mi + 1
                /\ UNCHANGED << pc, pruned_state, changed_state >>
           ELSE IF layername \notin DOMAIN maskbndict THEN CopyAbort
           ELSE /\ pruned_state' =
                     [pruned_state EXCEPT
                        ![layername \o <<"weight">>] =
                            [tag |-> "vals", v |-> Take(bn_weight[layername], out_idx)],
                        ![layername \o <<"bias">>] =
                            [tag |-> "vals", v |-> Take(bn_bias[layername], out_idx)],
                        ![layername \o <<"running_mean">>] =
                            [tag |-> "slice1", out |-> out_idx],
                        ![layername \o <<"running_var">>] =
                            [tag |-> "slice1", out |-> out_idx]]
                /\ changed_state' = changed_state \cup
                     { layername \o << t >> : t \in { "weight", "bias", "running_mean",
                                                      "running_var", "num_batches_tracked" } }
                /\ mi' = mi + 1
                /\ pc' = "copy"
    /\ CopyFrame

\* prune.py 555-565: a convolution of the head; one of the prototype branch
\* only rebinds the loop variable
CopyHeadConv ==
    /\ pc = "copy" /\ mi <= Len(named_modules)
    /\ CurModule.kind = "Conv2d" /\ StartsWithModel24(CurModule.name)
    /\ LET layername == CurModule.name
       IN  IF HasProto(layername)
           THEN /\ mi' = mi + 1
                /\ UNCHANGED << pc, pruned_state, changed_state >>
           ELSE IF \/ layername \notin DOMAIN from_to_map
                   \/ ~IsStr(from_to_map[layername])
                   \/ from_to_map[layername].str \notin DOMAIN maskbndict
           THEN CopyAbort
           ELSE /\ pruned_state' =
                     [pruned_state EXCEPT
                        ![layername \o <<"weight">>] =
                            [tag |-> "slice_in",
                             in |-> Argwhere(maskbndict[from_to_map[layername].str])],
                        ![layername \o <<"bias">>] = [tag |-> "full"]]
                /\ changed_state' = changed_state \cup
                     { layername \o <<"weight">>, layername \o <<"bias">> }
                /\ mi' = mi + 1
                /\ pc' = "copy"
    /\ CopyFrame

\* prune.py 503-504: a module that is neither a convolution nor a normalization
CopyOther ==
    /\ pc = "copy" /\ mi <= Len(named_modules)
    /\ CurModule.kind \notin {"Conv2d", "BatchNorm2d"}
    /\ mi' = mi + 1
    /\ UNCHANGED << pc, pruned_state, changed_state >>
    /\ CopyFrame

\* prune.py 567: the declared tensor names that were never recorded
ComputeMissing ==
    /\ pc = "copy" /\ mi > Len(named_modules)
    /\ missing' = DOMAIN pruned_state \ changed_state
    /\ pc' = "save"
    /\ UNCHANGED << named_modules, cfg_seg, opt_percent, percent, orig_written,
                    pruned_model_path, weight0, bias0, bn_weight,
                    bn_bias, ignore_bn_list, model_list, highest_thre, thre,
                    pruned_yaml, maskbndict, floored, mi, ei, ch, fromlayer,
                    from_to_map, layer_args, pruned_state, changed_state, saved >>

\* prune.py 569-579: the checkpoint is written and the rebuilt network returned
SaveCheckpoint ==
    /\ pc = "save"
    /\ pruned_model_path' = percent
    /\ saved' = TRUE
    /\ pc' = "done"
    /\ UNCHANGED << named_modules, cfg_seg, opt_percent, percent, orig_written, weight0, bias0, bn_weight,
                    bn_bias, ignore_bn_list, model_list, highest_thre, thre,
                    pruned_yaml, maskbndict, floored, mi, ei, ch, fromlayer,
                    from_to_map, layer_args, pruned_state, changed_state, missing >>

\* ------------------------------------------------- the rebuilt network
\* index of bottleneck "model.<i>.m.<p>...." within its block
BottleIdx(name) == CHOOSE p \in 0 .. 99 : ToString(p) = name[4]

\* the output width the builder passes to the constructor of the layer whose
\* normalization is bnname (parse_yolo.py: c2, cv1out, cv2out, cv3out,
\* bottle_cv1out, bottle_cv2out)
BuiltOut(bnname) ==
    LET a == layer_args[EntryIdx(bnname) + 1]
        kind == pruned_yaml[EntryIdx(bnname) + 1].m
        role == bnname[Len(bnname) - 1]
    IN  CASE kind = "Conv" -> a.c2
          [] kind = "C3Pruned" /\ Len(bnname) = 4 ->
                (CASE role = "cv1" -> a.cv1out
                   [] role = "cv2" -> a.cv2out
                   [] OTHER -> a.cv3out)
          [] kind = "C3Pruned" /\ Len(bnname) = 6 ->
                IF role = "cv1" THEN a.bottle_args[BottleIdx(bnname) + 1][2]
                ELSE a.bottle_args[BottleIdx(bnname) + 1][3]
          [] OTHER -> IF role = "cv1" THEN a.cv1out ELSE a.cv2out

\* the input width the builder passes for a layer fed by one source
\* (parse_yolo.py: c1, cv1in, bottle_cv1in, bottle_cv1out)
BuiltIn(bnname) ==
    LET a == layer_args[EntryIdx(bnname) + 1]
        kind == pruned_yaml[EntryIdx(bnname) + 1].m
        role == bnname[Len(bnname) - 1]
    IN  CASE kind = "Conv" -> a.c1
          [] kind = "C3Pruned" /\ Len(bnname) = 6 ->
                IF role = "cv1" THEN a.bottle_args[BottleIdx(bnname) + 1][1]
                ELSE a.bottle_args[BottleIdx(bnname) + 1][2]
          [] OTHER -> a.cv1in

\* ------------------------------------------------------------ properties
AllBn == DOMAIN weight0

Excluded == Range(ignore_bn_list)

\* the prototype branch is constructed by the head, not from layer_args
PrunableBn == { n \in AllBn : ~HasProto(n) }

Scored == pc \in {"build", "copy", "save", "done"}

Built == pc \in {"copy", "save", "done"}

Walked == pc \in {"save", "done"}

Popcount(mask) == Cardinality({ c \in DOMAIN mask : mask[c] = 1 })

\* C1: every normalization layer outside the exclusion list has a mask with
\* at least min_channel_num entries set, every layer has its mask once mask
\* generation has finished, and the width the builder gives a layer is the
\* popcount of its final mask.
C1_FloorAndWidth ==
    /\ \A n \in DOMAIN maskbndict :
          n \notin Excluded => Popcount(maskbndict[n]) >= min_channel_num
    /\ Scored => DOMAIN maskbndict = AllBn
    /\ Built => \A n \in PrunableBn \ Excluded : BuiltOut(n) = Popcount(maskbndict[n])

\* a layer the floor acted on and a layer the threshold alone decided, built
C1_Witness ==
    /\ Built
    /\ \E n \in floored : Popcount(ObtainBnMask(weight0[n], thre)) < min_channel_num
    /\ \E n \in AllBn \ (Excluded \cup floored) :
          Popcount(maskbndict[n]) < Len(maskbndict[n])

\* the exclusion list as the claim describes it
DescribedExclusion ==
    LET y == PrunedYaml(cfg_seg)
        c3 == { i \in 0 .. Len(y) - 1 : y[i + 1].m = "C3Pruned" /\ y[i + 1].shortcut }
    IN  UNION { { NamedMBase(i) \o <<"cv1", "bn">> }
                \cup { BottleCv1Bn(NamedMBase(i), p) : p \in 0 .. DepthGain(y[i + 1].n) - 1 }
                \cup { BottleCv2Bn(NamedMBase(i), p) : p \in 0 .. DepthGain(y[i + 1].n) - 1 }
                : i \in c3 }
        \cup (IF cfg_seg
              THEN { << "model", "24", "proto", cv, "bn" >> : cv \in {"cv1", "cv2", "cv3"} }
              ELSE {})

\* C2: the exclusion list holds both normalizations of every residual-add
\* bottleneck, the entry normalization of its block and the three prototype
\* normalizations; each of them has an all-true mask of its original length.
C2_ExcludedAllTrue ==
    /\ pc # "collect" => Excluded = DescribedExclusion
    /\ \A n \in Excluded \cap DOMAIN maskbndict :
          /\ Len(maskbndict[n]) = Len(weight0[n])
          /\ \A c \in DOMAIN maskbndict[n] : maskbndict[n][c] = 1
    /\ Scored => Excluded \subseteq DOMAIN maskbndict

\* an excluded layer with a channel the threshold would have dropped
C2_Witness ==
    /\ Scored
    /\ \E n \in Excluded : \E c \in DOMAIN weight0[n] : Abs(weight0[n][c]) <= thre

\* C3: a walk that ends with a declared tensor name never recorded as
\* written aborts, and the checkpoint write is not reached.
C3_AbortsOnMissing ==
    (Walked /\ DOMAIN pruned_state \ changed_state # {}) => (pc = "error" /\ ~saved)

\* C4: after the walk the rebuilt network declares the tensor names of the
\* original and every one of its tensors has been written.
C4_AllWritten ==
    Walked => /\ DOMAIN pruned_state = StateKeys(named_modules)
              /\ \A t \in DOMAIN pruned_state : pruned_state[t] # InitTensor

\* the convolutions, by the name of their normalization, whose provenance
\* entry is a list / a single layer
ListFed == { n \in DOMAIN from_to_map : IsList(from_to_map[n]) }

SingleFed == { n \in DOMAIN from_to_map : IsStr(from_to_map[n]) /\ n[Len(n)] = "bn" }

\* the kernel of the convolution whose normalization is bnname
KernelOf(bnname) == pruned_state[SubSeq(bnname, 1, Len(bnname) - 1) \o <<"conv", "weight">>]

KernelWritten(bnname) ==
    /\ pc \in {"copy", "save", "done"}
    /\ KernelOf(bnname) # InitTensor

\* the retained channel indices of a layer
Retained(n) == { c - 1 : c \in { d \in DOMAIN maskbndict[n] : maskbndict[n][d] = 1 } }

\* the segments of idx, one per source: segment k holds, ascending, the
\* retained indices of source k, each increased by the original widths of
\* the sources before it
SegmentsOk(idx, names) ==
    LET cnt(k) == Cardinality(Retained(names[k]))
        start(k) == SumSeq([ j \in 1 .. k - 1 |-> cnt(j) ])
        off(k) == SumSeq([ j \in 1 .. k - 1 |-> Len(weight0[names[j]]) ])
    IN  /\ Len(idx) = SumSeq([ k \in DOMAIN names |-> cnt(k) ])
        /\ \A k \in DOMAIN names : \A j \in 1 .. cnt(k) :
              /\ idx[start(k) + j] - off(k) \in Retained(names[k])
              /\ j > 1 => idx[start(k) + j] > idx[start(k) + j - 1]

\* the example of the specification: widths 128 and 64
ExampleMasks ==
    ("A" :> [ c \in 1 .. 128 |-> IF c - 1 \in {0, 5, 9} THEN 1 ELSE 0 ])
    @@ ("B" :> [ c \in 1 .. 64 |-> IF c - 1 \in {2, 3} THEN 1 ELSE 0 ])

\* C5: the input index list of a convolution with a list of sources is, in
\* list order, each source's retained indices ascending, offset by the
\* original widths of the sources before it; the example gives [0,5,9,130,131].
C5_ConcatOffsets ==
    /\ \A n \in ListFed : KernelWritten(n) =>
          SegmentsOk(KernelOf(n).in,
                     [ j \in DOMAIN from_to_map[n].list |-> from_to_map[n].list[j].str ])
    /\ Walked => \A n \in ListFed : KernelWritten(n)
    /\ pc = "save" => FormerIn(<<"A", "B">>, ExampleMasks, <<128, 64>>) = <<0, 5, 9, 130, 131>>

\* a written kernel with two sources, the first of them pruned, the second
\* retaining something
C5_Witness ==
    \E n \in ListFed :
       /\ KernelWritten(n)
       /\ pc = "save"
       /\ LET l == from_to_map[n].list
          IN  /\ Len(l) = 2
              /\ Popcount(maskbndict[l[1].str]) < Len(maskbndict[l[1].str])
              /\ Popcount(maskbndict[l[2].str]) < Len(maskbndict[l[2].str])

\* C6: the kernel written for a convolution with a single source has as many
\* input channels as its source's mask retains and as many output channels as
\* its own mask retains, the widths the builder gave the layer.
C6_SingleSourceShape ==
    /\ \A n \in SingleFed \cap PrunableBn : KernelWritten(n) =>
          LET w == KernelOf(n)
          IN  /\ w.rank = 4
              /\ Len(w.in) = Popcount(maskbndict[from_to_map[n].str])
              /\ Len(w.out) = Popcount(maskbndict[n])
              /\ Len(w.in) = BuiltIn(n)
              /\ Len(w.out) = BuiltOut(n)
    /\ Walked => \A n \in SingleFed \cap PrunableBn : KernelWritten(n)

\* a written single-source kernel narrower than the original on both sides
C6_Witness ==
    \E n \in SingleFed \cap PrunableBn :
       /\ KernelWritten(n)
       /\ Len(KernelOf(n).in) < Len(weight0[from_to_map[n].str])
       /\ Len(KernelOf(n).out) < Len(weight0[n])

\* the C3Pruned entries the builder has finished
ParsedC3 ==
    { i \in 0 .. Len(pruned_yaml) - 1 :
        /\ pruned_yaml[i + 1].m = "C3Pruned"
        /\ (pc = "build" => i < ei)
        /\ pc \in {"build", "copy", "save", "done"} }

\* C7: in a three-branch block with chain length n, bottleneck 0's first
\* normalization maps to the entry normalization, bottleneck k's first to
\* bottleneck k-1's second, every second to its own first, and the exit to
\* the list [last bottleneck's second, side normalization].
C7_ChainProvenance ==
    \A i \in ParsedC3 :
       LET base == NamedMBase(i)
           n == DepthGain(pruned_yaml[i + 1].n)
       IN  /\ n >= 1
           /\ from_to_map[BottleCv1Bn(base, 0)] = Str(base \o <<"cv1", "bn">>)
           /\ \A k \in 1 .. n - 1 :
                 from_to_map[BottleCv1Bn(base, k)] = Str(BottleCv2Bn(base, k - 1))
           /\ \A k \in 0 .. n - 1 :
                 from_to_map[BottleCv2Bn(base, k)] = Str(BottleCv1Bn(base, k))
           /\ from_to_map[base \o <<"cv3", "bn">>] =
                 Lst(<< Str(BottleCv2Bn(base, n - 1)), Str(base \o <<"cv2", "bn">>) >>)

\* a finished block with chain length 3
C7_Witness ==
    \E i \in ParsedC3 : DepthGain(pruned_yaml[i + 1].n) = 3

\* C8: with prune ratio 0 every channel of every layer is retained, the floor
\* is never triggered, and every layer is built with its original widths.
C8_ZeroRatioKeepsAll ==
    opt_percent = 0 =>
       /\ \A n \in DOMAIN maskbndict :
             Popcount(maskbndict[n]) = Len(weight0[n])
       /\ floored = {}
       /\ Built => \A n \in PrunableBn : BuiltOut(n) = Len(weight0[n])

\* the mask of an included layer by thresholding alone is empty
Emptied(n, t) == Popcount(ObtainBnMask(weight0[n], t)) = 0

\* C9: no threshold up to highest_thre empties an included layer by
\* thresholding alone, and every threshold above it empties one.
C9_HighestThreSafe ==
    pc \notin {"collect", "threshold"} =>
       \A t \in 0 .. MaxScale + 1 :
          /\ t <= highest_thre => \A n \in Range(model_list) : ~Emptied(n, t)
          /\ t > highest_thre => \E n \in Range(model_list) : Emptied(n, t)


\* C11: for every layer and channel, a channel whose final mask entry is true
\* still has its pre-pruning scale and bias in the original network and a
\* channel whose entry is false has both zero; every scale and bias the
\* transplant writes is the pre-pruning value of a retained channel.
C11_ZeroingExactlyDropped ==
    /\ \A n \in DOMAIN maskbndict : \A c \in DOMAIN maskbndict[n] :
          IF maskbndict[n][c] = 1
          THEN bn_weight[n][c] = weight0[n][c] /\ bn_bias[n][c] = bias0[n][c]
          ELSE bn_weight[n][c] = 0 /\ bn_bias[n][c] = 0
    /\ Built => \A n \in PrunableBn :
          pruned_state[n \o <<"weight">>] # InitTensor =>
             /\ pruned_state[n \o <<"weight">>].v = Take(weight0[n], Argwhere(maskbndict[n]))
             /\ pruned_state[n \o <<"bias">>].v = Take(bias0[n], Argwhere(maskbndict[n]))

\* the scoring loop has ended
ScoringEnded == DOMAIN maskbndict = AllBn /\ mi > Len(named_modules)

\* C12: nothing of the rebuilt network or the provenance map exists before
\* every layer has its final mask; the transplant runs only on a completely
\* scored and zeroed original and a completely built network; the checkpoint
\* is written only after the walk has ended.
C12_StageOrder ==
    /\ pc \in {"collect", "threshold", "score"} =>
          /\ from_to_map = << >> /\ layer_args = << >>
          /\ pruned_state = << >> /\ changed_state = {} /\ ~saved
    /\ pc = "build" =>
          /\ ScoringEnded
          /\ pruned_state = << >> /\ changed_state = {} /\ ~saved
    /\ pc = "copy" =>
          /\ DOMAIN maskbndict = AllBn
          /\ \A n \in AllBn : \A c \in DOMAIN maskbndict[n] :
                maskbndict[n][c] = 0 => bn_weight[n][c] = 0 /\ bn_bias[n][c] = 0
          /\ ei = Len(pruned_yaml) /\ Len(layer_args) = Len(pruned_yaml)
          /\ ~saved
    /\ pc \in {"save", "done"} => mi > Len(named_modules)
    /\ saved => pc = "done"

\* a run that went through all four stages, with a floored layer
C12_Witness == saved /\ floored # {} /\ changed_state # {}

\* the mask a scored layer was zeroed with
ZeroingMask(n) == MaskBeforeFloor(n, weight0[n], ignore_bn_list, thre)

\* C13: no tensor of the original network other than a normalization scale or
\* bias is ever written; a scale or bias holds its load-time value until the
\* scorer reaches its layer and from then on the value the scorer left, so
\* the build, the transplant and the checkpoint write change none of them.
C13_OriginalFrame ==
    /\ orig_written = {}
    /\ \A n \in AllBn :
          IF n \in DOMAIN maskbndict
          THEN /\ bn_weight[n] = MulMask(weight0[n], ZeroingMask(n))
               /\ bn_bias[n] = MulMask(bias0[n], ZeroingMask(n))
          ELSE /\ bn_weight[n] = weight0[n]
               /\ bn_bias[n] = bias0[n]

\* the walk has ended, the scorer changed a scale, and the transplant wrote
\* kernels, scales and head biases of the rebuilt network
C13_Witness ==
    /\ Walked
    /\ \E n \in AllBn : bn_weight[n] # weight0[n]
    /\ \E t \in changed_state : t[Len(t)] = "bias" /\ StartsWithModel24(t)
    /\ \E t \in changed_state : t[Len(t)] = "running_var"

\* the normalization layers of the prototype branch
ProtoBn == { n \in AllBn : HasProto(n) }

\* C14: with the segmentation head, after the transplant each prototype
\* normalization of the rebuilt network holds the original's scale, bias,
\* running mean and running variance, whole.
C14_ProtoCopied ==
    (Walked /\ cfg_seg) =>
       \A n \in ProtoBn :
          /\ pruned_state[n \o <<"weight">>] = [tag |-> "vals", v |-> weight0[n]]
          /\ pruned_state[n \o <<"bias">>] = [tag |-> "vals", v |-> bias0[n]]
          /\ pruned_state[n \o <<"running_mean">>] =
                [tag |-> "slice1", out |-> Argwhere(Ones(weight0[n]))]
          /\ pruned_state[n \o <<"running_var">>] =
                [tag |-> "slice1", out |-> Argwhere(Ones(weight0[n]))]

\* C15: the threshold is the element at zero-based rank floor(p * pool_size)
\* of the ascending pool of the scored layers' scale magnitudes, p being the
\* argument percent, and that rank is an index of the pool (stated where the
\* threshold has just been selected).
C15_ThresholdFromArgument ==
    (pc = "score" /\ mi = 1) =>
       LET pool == SortAsc(GatherBnWeights(model_list, weight0))
           rank == (Len(pool) * percent) \div PDen
       IN  /\ rank \in 0 .. Len(pool) - 1
           /\ thre = pool[rank + 1]

\* the entries of a kind that the builder has finished
ParsedOf(kind) ==
    { i \in 0 .. Len(pruned_yaml) - 1 :
        /\ pruned_yaml[i + 1].m = kind
        /\ pc \in {"build", "copy", "save", "done"}
        /\ (pc = "build" => i < ei) }

\* SPPFPruned(cv1in, cv1out, cv2out, k): the exit convolution consumes four
\* concatenated copies of the entry output
SPPFCv2In(a) == 4 * a.cv1out

\* C16: the exit convolution of the pooling-fusion block maps to four
\* references to the entry normalization; its input index list holds, for
\* k = 0..3, the entry layer's retained indices plus k times the entry
\* layer's original width, 4 * popcount(entry mask) entries, the exit
\* convolution's input width in the rebuilt network.
C16_PoolingFusion ==
    \A i \in ParsedOf("SPPFPruned") :
       LET cv1 == NamedMBase(i) \o <<"cv1", "bn">>
           cv2 == NamedMBase(i) \o <<"cv2", "bn">>
           ret == Argwhere(maskbndict[cv1])
           cnt == Popcount(maskbndict[cv1])
           w == Len(weight0[cv1])
       IN  /\ from_to_map[cv2] = Lst(<< Str(cv1), Str(cv1), Str(cv1), Str(cv1) >>)
           /\ KernelWritten(cv2) =>
                 /\ KernelOf(cv2).in =
                       [ j \in 1 .. 4 * cnt |->
                           ret[((j - 1) % cnt) + 1] + ((j - 1) \div cnt) * w ]
                 /\ Len(KernelOf(cv2).in) = SPPFCv2In(layer_args[i + 1])
           /\ Walked => KernelWritten(cv2)

\* the exit kernel is written and the entry layer lost channels
C16_Witness ==
    \E i \in ParsedOf("SPPFPruned") :
       /\ KernelWritten(NamedMBase(i) \o <<"cv2", "bn">>)
       /\ Popcount(maskbndict[NamedMBase(i) \o <<"cv1", "bn">>])
             < Len(weight0[NamedMBase(i) \o <<"cv1", "bn">>])

\* idx lists the retained indices of layer n, ascending
IsRetainedAscending(idx, n) ==
    /\ Range(idx) = Retained(n)
    /\ \A j \in 2 .. Len(idx) : idx[j] > idx[j - 1]

\* C18: each of the three head convolutions maps to the exit normalization
\* of its source block; the kernel written for it is the original sliced
\* along the input dimension only, by that source's retained indices, and
\* its bias is the original bias.
C18_HeadConvSlicing ==
    \A i \in ParsedOf("Detect") \cup ParsedOf("Segment") : \A k \in 0 .. 2 :
       LET layername == NamedMBase(i) \o << "m", ToString(k) >>
           source == NamedMBase(pruned_yaml[i + 1].f[k + 1]) \o << "cv3", "bn" >>
           w == pruned_state[layername \o <<"weight">>]
       IN  /\ from_to_map[layername] = Str(source)
           /\ (Built /\ w # InitTensor) =>
                 /\ w.tag = "slice_in"
                 /\ IsRetainedAscending(w.in, source)
                 /\ pruned_state[layername \o <<"bias">>] = [tag |-> "full"]
           /\ Walked => w # InitTensor

\* a head kernel is written whose source lost channels
C18_Witness ==
    \E i \in ParsedOf("Detect") \cup ParsedOf("Segment") : \E k \in 0 .. 2 :
       LET layername == NamedMBase(i) \o << "m", ToString(k) >>
           source == NamedMBase(pruned_yaml[i + 1].f[k + 1]) \o << "cv3", "bn" >>
       IN  /\ Built
           /\ pruned_state[layername \o <<"weight">>] # InitTensor
           /\ Popcount(maskbndict[source]) < Len(weight0[source])

\* the channels (layer, position) of the layers outside the exclusion list
PoolChannels ==
    UNION { { << n, c >> : c \in 1 .. Len(weight0[n]) } : n \in AllBn \ Excluded }

\* C19: the scored layers are exactly the normalization layers outside the
\* final exclusion list, each once; the threshold is the element of the
\* selected rank among the scale magnitudes of exactly those layers, and
\* highest_thre is the least of exactly those layers' largest magnitudes.
C19_PoolIsNonExcluded ==
    /\ pc # "collect" =>
          /\ Range(model_list) = AllBn \ Excluded
          /\ Cardinality(Range(model_list)) = Len(model_list)
    /\ (pc = "score" /\ mi = 1) =>
          LET below == Cardinality({ q \in PoolChannels : Abs(weight0[q[1]][q[2]]) < thre })
              upto  == Cardinality({ q \in PoolChannels : Abs(weight0[q[1]][q[2]]) <= thre })
              rank  == ThreIndex(Cardinality(PoolChannels), opt_percent)
          IN  /\ below <= rank /\ rank < upto
              /\ \A n \in AllBn \ Excluded : highest_thre <= LayerMax(weight0[n])
              /\ \E n \in AllBn \ Excluded : highest_thre = LayerMax(weight0[n])

\* the loop let a block's entry normalization in before the bottleneck that
\* excludes it was visited, and the scored layers do not contain it
C19_Witness ==
    /\ pc = "threshold"
    /\ \E n \in Range(CollectLoop(PrunedYaml(cfg_seg), named_modules).model_list) :
          /\ n \in Excluded /\ n \notin Range(model_list)
          /\ n[Len(n) - 1] = "cv1" /\ Len(n) = 4

\* C3Pruned(cv1in, cv1out, cv2out, cv3out, bottle_args, n, shortcut): the
\* exit convolution consumes the last bottleneck's output followed by the
\* side convolution's output
C3Cv3In(a) == a.bottle_args[Len(a.bottle_args)][3] + a.cv2out

\* the input width the rebuilt network has for a layer fed by several sources
BuiltListIn(bnname) ==
    LET a == layer_args[EntryIdx(bnname) + 1]
        kind == pruned_yaml[EntryIdx(bnname) + 1].m
        role == bnname[Len(bnname) - 1]
    IN  CASE kind = "C3Pruned" /\ Len(bnname) = 4 /\ role = "cv3" -> C3Cv3In(a)
          [] kind = "SPPFPruned" /\ role = "cv2" -> SPPFCv2In(a)
          [] OTHER -> BuiltIn(bnname)

\* the names in the provenance list of n
SourceNames(n) == [ j \in DOMAIN from_to_map[n].list |-> from_to_map[n].list[j].str ]

\* C20: for every convolution with a list of sources, the input index list
\* of the written kernel is strictly increasing, every index is below the
\* sum of the sources' original widths, and its length is the input width
\* the builder gave the convolution, the sum of the sources' retained counts.
C20_ListIndexShape ==
    /\ \A n \in ListFed : KernelWritten(n) =>
          LET idx == KernelOf(n).in
              src == SourceNames(n)
          IN  /\ \A j \in 2 .. Len(idx) : idx[j] > idx[j - 1]
              /\ \A j \in DOMAIN idx :
                    0 <= idx[j] /\ idx[j] < SumSeq([ k \in DOMAIN src |-> Len(weight0[src[k]]) ])
              /\ Len(idx) = BuiltListIn(n)
              /\ Len(idx) = SumSeq([ k \in DOMAIN src |-> Popcount(maskbndict[src[k]]) ])
    /\ Walked => \A n \in ListFed : KernelWritten(n)

\* written kernels of an exit convolution whose side branch lost channels
\* and of a convolution behind a concatenation whose sources lost channels
C20_Witness ==
    /\ \E n \in ListFed :
          /\ KernelWritten(n) /\ n[Len(n) - 1] = "cv3"
          /\ Popcount(maskbndict[SourceNames(n)[2]]) < Len(weight0[SourceNames(n)[2]])
    /\ \E n \in ListFed :
          /\ KernelWritten(n) /\ n[Len(n) - 1] = "cv1" /\ Len(SourceNames(n)) = 2
          /\ \A k \in 1 .. 2 :
                Popcount(maskbndict[SourceNames(n)[k]]) < Len(weight0[SourceNames(n)[k]])

\* the bottlenecks (entry, position) of the rebuilt network so far
ParsedBottlenecks ==
    { q \in ParsedOf("C3Pruned") \X (1 .. 9) : q[2] <= Len(layer_args[q[1] + 1].bottle_args) }

\* the original counterpart of a rebuilt bottleneck has a residual add
HasAdd(q) ==
    OrigAdd(PrunedYaml(cfg_seg), NamedMBase(q[1]) \o << "m", ToString(q[2] - 1) >>)

\* C21: every bottleneck of the rebuilt network whose original counterpart
\* has a residual add is given an input channel count equal to the output
\* channel count of its second convolution, whatever the prune ratio and
\* the scale values.
C21_ResidualShape ==
    \A q \in ParsedBottlenecks : HasAdd(q) =>
       LET b == layer_args[q[1] + 1].bottle_args[q[2]]
       IN  b[1] = b[3]

\* a block of two residual bottlenecks is built while the side convolution
\* of the same block lost channels, and a bottleneck without a residual add
\* is built with an input width other than its output width
C21_Witness ==
    /\ \E q \in ParsedBottlenecks :
          /\ HasAdd(q) /\ q[2] = 2
          /\ layer_args[q[1] + 1].cv2out
                < Len(weight0[NamedMBase(q[1]) \o <<"cv2", "bn">>])
    /\ \E q \in ParsedBottlenecks :
          /\ ~HasAdd(q)
          /\ layer_args[q[1] + 1].bottle_args[q[2]][1]
                # layer_args[q[1] + 1].bottle_args[q[2]][3]

Next ==
    \/ Collect \/ SelectThreshold \/ ScoreBn \/ ScoreSkip
    \/ StartBuild \/ ParseConv \/ ParseC3Pruned \/ ParseSPPFPruned
    \/ ParseConcat \/ ParseHead \/ ParseOther \/ FinishBuild
    \/ CopyConv \/ CopyBn \/ CopyHeadConv \/ CopyOther
    \/ ComputeMissing \/ SaveCheckpoint

Spec == Init /\ [][Next]_vars

\* --------------------------- parse_pruned_model on arbitrary descriptors
\* number of well-formed entries that may precede the entry under test
MaxPrefix == 2

\* largest magnitude of a source index
MaxRef == 3

\* the entry under test: a kind and a source index; a Concat joins the
\* previous entry and f, a Detect reads f and twice the previous entry
TopoEntry(m, f) ==
    CASE m = "Concat" -> Entry(<< -1, f >>, 1, m, FALSE)
      [] m = "Detect" -> Entry(<< f, -1, -1 >>, 1, m, FALSE)
      [] OTHER -> Entry(f, 1, m, FALSE)

\* d['backbone'] + d['head']: k well-formed Conv entries, the entry under
\* test, and one more well-formed entry
TopoDescriptor(k, m, f) ==
    [ j \in 1 .. k |-> Entry(-1, 1, "Conv", FALSE) ]
    \o << TopoEntry(m, f) >> \o << Entry(-1, 1, "Conv", FALSE) >>

\* a mask for every normalization an entry of any kind may look up
TopoMasks ==
    LET names == UNION { { NamedMBase(i) \o <<"bn">> } \cup C3BnNames(NamedMBase(i), 1) :
                         i \in 0 .. MaxPrefix + 1 }
    IN  [ nm \in names |-> << 1, 0, 1 >> ]

\* parse_yolo.py 35-43: parse_pruned_model(maskbndict, d, ch) is entered
InitTopo ==
    /\ pc = "build"
    /\ \E k \in 0 .. MaxPrefix : \E f \in -MaxRef .. MaxRef :
       \E m \in {"Conv", "C3Pruned", "SPPFPruned", "nn.Upsample", "Concat", "Detect"} :
          pruned_yaml = TopoDescriptor(k, m, f)
    /\ maskbndict = TopoMasks
    /\ ei = 0
    /\ ch = << InputCh >>
    /\ fromlayer = << >>
    /\ from_to_map = << >>
    /\ layer_args = << >>
    /\ named_modules = << >>
    /\ cfg_seg = FALSE
    /\ percent = 0
    /\ opt_percent = 0
    /\ orig_written = {}
    /\ pruned_model_path = -1
    /\ weight0 = << >>
    /\ bias0 = << >>
    /\ bn_weight = << >>
    /\ bn_bias = << >>
    /\ ignore_bn_list = << >>
    /\ model_list = << >>
    /\ highest_thre = -1
    /\ thre = -1
    /\ floored = {}
    /\ mi = 0
    /\ pruned_state = << >>
    /\ changed_state = {}
    /\ missing = {}
    /\ saved = FALSE

NextTopo ==
    \/ ParseConv \/ ParseC3Pruned \/ ParseSPPFPruned
    \/ ParseConcat \/ ParseHead \/ ParseOther

SpecTopo == InitTopo /\ [][NextTopo]_vars

\* parse_yolo.py 149: the loop has ended and the network is returned
Returned == pc = "build" /\ ei = Len(pruned_yaml)

\* the source indices an entry declares
SourcesOf(e) == IF e.m \in {"Concat", "Detect", "Segment"} THEN Range(e.f) ELSE { e.f }

\* source index x of entry i designates an earlier entry, counted from the
\* start or back from i; for entry 0 the index -1 is the network input
Designates(i, x) ==
    \/ 0 <= x /\ x < i
    \/ x < 0 /\ i + x >= 0
    \/ i = 0 /\ x = -1

\* C17: construction never moves past an entry one of whose source indices
\* fails to designate an earlier entry (for entry 0, the network input): a
\* self-reference or a forward reference, at entry 0 as well, aborts, and
\* no network is returned.
C17_BadReferenceAborts ==
    /\ pc = "build" =>
          \A i \in 0 .. ei - 1 :
             \A x \in SourcesOf(pruned_yaml[i + 1]) : Designates(i, x)
    /\ Returned => pc # "error"

\* construction aborted at entry 0, a Conv that names itself as its source
C17_Witness ==
    /\ pc = "error" /\ ei = 0
    /\ pruned_yaml[1].m = "Conv" /\ pruned_yaml[1].f = 0

====
